---- MODULE Spec2Model ----
(***************************************************************************)
(* Fixed-point reciprocal square root (fast_rsqrt.c): clz32, rsqrt_table,  *)
(* q16_newton_step, fast_rsqrt and dist3.                                  *)
(*                                                                         *)
(* The C code works on uint32_t / uint64_t values.  TLC's integers are     *)
(* 32-bit signed, so every C value is held as a natural number written in  *)
(* base 256, least significant digit first, without leading zero digits    *)
(* (<<>> is 0, <<0, 1>> is 256).  A uint32_t is such a number below 2^32   *)
(* (at most 4 digits), a uint64_t one below 2^64 (at most 8 digits); the   *)
(* C operators that wrap are modelled by truncating to that many digits.   *)
(***************************************************************************)
EXTENDS Integers, Sequences, FiniteSets, TLC

----------------------------------------------------------------------------
(* Natural numbers of any size, base 256, little endian.                   *)

Base == 16 * 16

Max2(a, b) == IF a >= b THEN a ELSE b

Min2(a, b) == IF a <= b THEN a ELSE b

RECURSIVE Pow2(_)
Pow2(k) == IF k = 0 THEN 1 ELSE 2 * Pow2(k - 1)

\* Digit i (1-based) of n, 0 beyond its length.
Dig(n, i) == IF i >= 1 /\ i <= Len(n) THEN n[i] ELSE 0

\* n without its leading (most significant) zero digits.
RECURSIVE Norm(_)
Norm(n) ==
    IF n = <<>> THEN <<>>
    ELSE IF n[Len(n)] = 0 THEN Norm(SubSeq(n, 1, Len(n) - 1))
    ELSE n

\* The number whose i-th "digit" is the integer s[i] (any integer, also
\* negative or above 255) plus the carry c: digits brought back to 0..255.
\* The value must be >= 0.
RECURSIVE Carry(_, _, _, _)
Carry(s, i, c, acc) ==
    IF i > Len(s)
    THEN IF c = 0 THEN Norm(acc)
         ELSE Carry(s, i, c \div Base, Append(acc, c % Base))
    ELSE LET t == s[i] + c
         IN  Carry(s, i + 1, t \div Base, Append(acc, t % Base))

\* A small integer (0 .. 2^31 - 1) as a number.
Num(k) == Carry(<<k>>, 1, 0, <<>>)

Add(a, b) ==
    Carry([i \in 1..Max2(Len(a), Len(b)) |-> Dig(a, i) + Dig(b, i)], 1, 0, <<>>)

\* a - b, for a >= b.
Sub(a, b) ==
    Carry([i \in 1..Max2(Len(a), Len(b)) |-> Dig(a, i) - Dig(b, i)], 1, 0, <<>>)

\* Sum over i of a[i] * b[k + 1 - i]: coefficient k of the product.
RECURSIVE Conv(_, _, _, _)
Conv(a, b, k, i) ==
    IF i > Len(a) THEN 0
    ELSE Dig(a, i) * Dig(b, k + 1 - i) + Conv(a, b, k, i + 1)

Mul(a, b) ==
    IF a = <<>> \/ b = <<>> THEN <<>>
    ELSE Carry([k \in 1..(Len(a) + Len(b) - 1) |-> Conv(a, b, k, 1)], 1, 0, <<>>)

\* a < b, a <= b.
RECURSIVE LessFrom(_, _, _)
LessFrom(a, b, i) ==
    IF i = 0 THEN FALSE
    ELSE IF a[i] # b[i] THEN a[i] < b[i]
    ELSE LessFrom(a, b, i - 1)

Less(a, b) ==
    IF Len(a) # Len(b) THEN Len(a) < Len(b) ELSE LessFrom(a, b, Len(a))

Leq(a, b) == a = b \/ Less(a, b)

\* a * 2^k and floor(a / 2^k), unbounded.
ShL(a, k) ==
    LET q == k \div 8
        m == Pow2(k % 8)
    IN  IF a = <<>> THEN <<>>
        ELSE Carry([i \in 1..(q + Len(a)) |-> IF i <= q THEN 0 ELSE a[i - q] * m],
                   1, 0, <<>>)

ShR(a, k) ==
    LET q == k \div 8
        r == k % 8
        d == IF q >= Len(a) THEN <<>> ELSE SubSeq(a, q + 1, Len(a))
    IN  Carry([i \in 1..Len(d) |->
                (d[i] \div Pow2(r)) + (Dig(d, i + 1) % Pow2(r)) * Pow2(8 - r)],
              1, 0, <<>>)

\* a mod 2^(8 * bytes): the conversion to an unsigned type of that size.
Trunc(a, bytes) == Norm(SubSeq(a, 1, Min2(Len(a), bytes)))

----------------------------------------------------------------------------
(* The C types.                                                            *)

Zero == <<>>

\* 0xFFFFFFFF
MaxU32 == <<255, 255, 255, 255>>

\* 2^32 and 2^64
Two32 == ShL(Num(1), 32)

Two64 == ShL(Num(1), 64)

\* (uint32_t)a and (uint64_t)a of a natural number a.
U32(a) == Trunc(a, 4)

U64(a) == Trunc(a, 8)

\* a - b in uint64_t arithmetic (a, b < 2^64): wraps modulo 2^64.
SubU64(a, b) == IF Leq(b, a) THEN Sub(a, b) ELSE Sub(Add(a, Two64), b)

\* a - b in uint32_t arithmetic (a, b < 2^32): wraps modulo 2^32.
SubU32(a, b) == IF Leq(b, a) THEN Sub(a, b) ELSE Sub(Add(a, Two32), b)

----------------------------------------------------------------------------
(* clz32: count of leading zero bits, 32 for 0.                            *)

\* One test of the bit scan on s = [n, x]:
\*     if ((x >> (32 - k)) == 0) { n += k; x <<= k; }
clz_if(s, k) ==
    IF ShR(s.x, 32 - k) = Zero
    THEN [n |-> s.n + k, x |-> U32(ShL(s.x, k))]
    ELSE s

\* clz32 without its last test (the "n += 1" of the 1-bit step is lost).
clz32_no_last_step(x) ==
    IF x = Zero THEN 32
    ELSE clz_if(clz_if(clz_if(clz_if([n |-> 0, x |-> x], 16), 8), 4), 2).n

\* The result n is a small integer.  The last test adds 1 and leaves x.
clz32(x) ==
    IF x = Zero THEN 32
    ELSE LET s == clz_if(clz_if(clz_if(clz_if([n |-> 0, x |-> x], 16), 8), 4), 2)
         IN  IF ShR(s.x, 31) = Zero THEN s.n + 1 ELSE s.n

\* rsqrt_table with entry 4 mistyped (16383 for 16384).
rsqrt_table_typo ==
    << 65536, 46341, 32768, 23170, 16383, 11585, 8192, 5793,
       4096,  2896,  2048,  1448,  1024,  724,   512,  362,
       256,   181,   128,   90,    64,    45,    32,   23,
       16,    11,    8,     6,     4,     3,     2,    1 >>

\* rsqrt_table[e] of the C code is rsqrt_table[e + 1] here (1-based).
rsqrt_table ==
    << 65536, 46341, 32768, 23170, 16384, 11585, 8192, 5793,
       4096,  2896,  2048,  1448,  1024,  724,   512,  362,
       256,   181,   128,   90,    64,    45,    32,   23,
       16,    11,    8,     6,     4,     3,     2,    1 >>

\* q16_newton_step with y * y computed in 32 bits (the uint64_t cast lost).
q16_newton_step_32bit(y, x) ==
    LET y2   == U32(Mul(y, y))
        term == SubU64(ShL(Num(3), 32), U64(Mul(x, y2)))
        prod == U64(Mul(y, term))
    IN  U32(ShR(prod, 33))

\* y2, term and prod are uint64_t, the result uint32_t.
q16_newton_step(y, x) ==
    LET y2   == U64(Mul(y, y))
        term == SubU64(ShL(Num(3), 32), U64(Mul(x, y2)))
        prod == U64(Mul(y, term))
    IN  U32(ShR(prod, 33))

\* One completed call, as the caller sees it.
CallRec(f, a, r) == [fn |-> f, args |-> a, ret |-> r]

\* Steps 2) and 3) of fast_rsqrt for x in exponent bucket exp: the table
\* lookup and the linear interpolation.  The locals, y being the seed.
interpolate(x, exp) ==
    LET y_base  == Num(rsqrt_table[exp + 1])
        y_next  == IF exp < 31 THEN Num(rsqrt_table[exp + 2]) ELSE Num(1)
        one_exp == IF exp < 31 THEN U32(ShL(Num(1), exp)) ELSE Zero
        diff    == SubU64(x, one_exp)
        frac64  == U64(ShL(diff, 16))
        frac    == U32(ShR(frac64, exp))
        delta   == SubU32(y_base, y_next)
        interp  == U64(Mul(delta, frac))
    IN  [exp |-> exp, y_base |-> y_base, y_next |-> y_next,
         one_exp |-> one_exp, frac |-> frac, delta |-> delta,
         y |-> SubU32(y_base, U32(ShR(interp, 16)))]

\* fast_rsqrt with the second Newton-Raphson iteration dropped.
fast_rsqrt_run_one_step(x) ==
    IF x = Zero
    THEN [ret |-> MaxU32, locals |-> <<>>, calls |-> <<>>]
    ELSE LET lz  == clz32(x)
             loc == interpolate(x, 31 - lz)
             y1  == q16_newton_step(loc.y, x)
         IN  [ret    |-> y1,
              locals |-> loc,
              calls  |-> << CallRec("clz32", <<x>>, Num(lz)),
                            CallRec("q16_newton_step", <<loc.y, x>>, y1) >>]

\* fast_rsqrt with the exponent found before the zero test.
fast_rsqrt_run_clz_first(x) ==
    LET lz  == clz32(x)
        loc == interpolate(x, 31 - lz)
        y1  == q16_newton_step(loc.y, x)
        y2  == q16_newton_step(y1, x)
    IN  IF x = Zero
        THEN [ret |-> MaxU32, locals |-> <<>>,
              calls |-> << CallRec("clz32", <<x>>, Num(lz)) >>]
        ELSE [ret    |-> y2,
              locals |-> loc,
              calls  |-> << CallRec("clz32", <<x>>, Num(lz)),
                            CallRec("q16_newton_step", <<loc.y, x>>, y1),
                            CallRec("q16_newton_step", <<y1, x>>, y2) >>]

\* fast_rsqrt(x): its return value, its locals (<<>> when it returns before
\* they are set) and the calls it makes, in order.  exp is 31 - clz32(x),
\* in 0..31 as x is not 0 here.
fast_rsqrt_run(x) ==
    IF x = Zero
    THEN [ret |-> MaxU32, locals |-> <<>>, calls |-> <<>>]
    ELSE LET lz  == clz32(x)
             loc == interpolate(x, 31 - lz)
             y1  == q16_newton_step(loc.y, x)
             y2  == q16_newton_step(y1, x)
         IN  [ret    |-> y2,
              locals |-> loc,
              calls  |-> << CallRec("clz32", <<x>>, Num(lz)),
                            CallRec("q16_newton_step", <<loc.y, x>>, y1),
                            CallRec("q16_newton_step", <<y1, x>>, y2) >>]

fast_rsqrt(x) == fast_rsqrt_run(x).ret

\* An int32_t is [neg |-> sign, mag |-> magnitude], mag in 1..2^31 when neg
\* and in 0..2^31 - 1 otherwise.  (uint64_t)v is v modulo 2^64.
ToU64(v) == IF v.neg THEN Sub(Two64, v.mag) ELSE v.mag

\* (uint64_t)v * v
square(v) == U64(Mul(ToU64(v), ToU64(v)))

\* dist3, line 68: the sum of the three squares, in uint64_t arithmetic.
sum_of_squares(x, y, z) == U64(Add(U64(Add(square(x), square(y))), square(z)))

\* dist3 without the saturation of the sum (the sum is only truncated later).
saturate_none(sum) == sum

\* dist3, lines 69-71: the sum saturated at 0xFFFFFFFF.
saturate(sum) == IF Less(MaxU32, sum) THEN MaxU32 ELSE sum

\* dist3, line 74: dist, the product in uint64_t arithmetic.
scale(inv_sqrt, sum_sq) == U64(Mul(inv_sqrt, U32(sum_sq)))

----------------------------------------------------------------------------
(* The inputs the functions are applied to.                                *)

\* Every value 0 .. MaxSmall is an input of clz32 and fast_rsqrt.
MaxSmall == 40

\* Every component -MaxComp .. MaxComp is an input of dist3.
MaxComp == 3

\* 2^e as a number.
P2(e) == ShL(Num(1), e)

\* The values around every power of two of the 32-bit range, the middle of
\* every exponent bucket (3 * 2^(e-1)) and the value before it, the largest
\* value, 1000000 (with 1, 5 and 16 the values main() uses), and values
\* just above 2^10 (1132, 1133, 1500).
U32Inputs ==
    {Num(k) : k \in 0..MaxSmall}
    \cup {Sub(P2(e), Num(1)) : e \in 0..31}
    \cup {P2(e) : e \in 0..31}
    \cup {Add(P2(e), Num(1)) : e \in 0..31}
    \cup {Mul(Num(3), P2(e - 1)) : e \in 1..31}
    \cup {Sub(Mul(Num(3), P2(e - 1)), Num(1)) : e \in 1..31}
    \cup {MaxU32, Num(1000000), Num(1132), Num(1133), Num(1500)}

Pos(k) == [neg |-> FALSE, mag |-> Num(k)]

Neg(k) == [neg |-> TRUE, mag |-> Num(k)]

\* INT32_MIN and INT32_MAX
Int32Min == [neg |-> TRUE, mag |-> P2(31)]

Int32Max == [neg |-> FALSE, mag |-> Sub(P2(31), Num(1))]

Int32Inputs ==
    {Pos(k) : k \in 0..MaxComp}
    \cup {Neg(k) : k \in 1..MaxComp}
    \cup {Pos(4), Neg(12), Pos(257), Neg(1000), Pos(30000), Neg(37838),
          Pos(46341), Pos(65535), Neg(65536), Int32Min, Int32Max}

----------------------------------------------------------------------------
(* One call of one of the functions: pc = "call" with the arguments set,   *)
(* then pc = "return" with the result, the locals and the calls made.      *)
(* clz32 and fast_rsqrt run in one step; dist3 runs line by line, pc       *)
(* naming the statement it executes next.                                  *)

VARIABLES pc, fn, args, ret, locals, calls

vars == <<pc, fn, args, ret, locals, calls>>

Init ==
    /\ pc = "call"
    /\ \/ fn = "clz32"      /\ args \in {<<x>> : x \in U32Inputs}
       \/ fn = "fast_rsqrt" /\ args \in {<<x>> : x \in U32Inputs}
       \/ fn = "dist3"      /\ args \in Int32Inputs \X Int32Inputs \X Int32Inputs
    /\ ret = Zero
    /\ locals = <<>>
    /\ calls = <<>>

Run_clz32 ==
    /\ pc = "call" /\ fn = "clz32"
    /\ pc' = "return"
    /\ ret' = Num(clz32(args[1]))
    /\ UNCHANGED <<fn, args, locals, calls>>

Run_fast_rsqrt ==
    /\ pc = "call" /\ fn = "fast_rsqrt"
    /\ LET run == fast_rsqrt_run(args[1])
       IN  /\ pc' = "return"
           /\ ret' = run.ret
           /\ locals' = run.locals
           /\ calls' = run.calls
    /\ UNCHANGED <<fn, args>>

\* line 68
dist3_sum ==
    /\ pc = "call" /\ fn = "dist3"
    /\ pc' = "saturate"
    /\ locals' = [sum |-> sum_of_squares(args[1], args[2], args[3])]
    /\ UNCHANGED <<fn, args, ret, calls>>

\* lines 69-71
dist3_saturate ==
    /\ pc = "saturate"
    /\ pc' = "rsqrt"
    /\ locals' = [sum |-> locals.sum, sum_sq |-> saturate(locals.sum)]
    /\ UNCHANGED <<fn, args, ret, calls>>

\* line 72
dist3_rsqrt ==
    /\ pc = "rsqrt"
    /\ LET run == fast_rsqrt_run(U32(locals.sum_sq))
       IN  /\ pc' = "scale"
           /\ locals' = [sum |-> locals.sum, sum_sq |-> locals.sum_sq,
                         inv_sqrt |-> run.ret]
           /\ calls' = << CallRec("fast_rsqrt", <<U32(locals.sum_sq)>>, run.ret) >>
                       \o run.calls
    /\ UNCHANGED <<fn, args, ret>>

\* lines 74-75
dist3_scale ==
    /\ pc = "scale"
    /\ pc' = "return"
    /\ ret' = U32(ShR(scale(locals.inv_sqrt, locals.sum_sq), 16))
    /\ UNCHANGED <<fn, args, locals, calls>>

Next ==
    \/ Run_clz32
    \/ Run_fast_rsqrt
    \/ dist3_sum
    \/ dist3_saturate
    \/ dist3_rsqrt
    \/ dist3_scale

Spec == Init /\ [][Next]_vars

----------------------------------------------------------------------------
(* What the claims are stated over.                                        *)

Returned(f) == pc = "return" /\ fn = f

\* A fast_rsqrt call on a nonzero argument has returned.
RsqrtDone == Returned("fast_rsqrt") /\ args[1] # Zero

\* The calls of q16_newton_step made by the call that returned.
NewtonCalls == {i \in 1..Len(calls) : calls[i].fn = "q16_newton_step"}

Three32 == ShL(Num(3), 32)

\* r * r * x as an unbounded integer.
RRX(r, x) == Mul(Mul(r, r), x)

\* | a - b |
AbsDiff(a, b) == IF Leq(b, a) THEN Sub(a, b) ELSE Sub(b, a)

\* | r*r*x - 2^32 | * 1000 < 2^32
WithinTenthPercent(r, x) ==
    Less(Mul(AbsDiff(RRX(r, x), Two32), Num(1000)), Two32)

\* Reference leading-zero count: the number of e in 0..31 with x < 2^e.
RefClz(x) == Cardinality({e \in 0..31 : Less(x, P2(e))})

\* x^2 + y^2 + z^2 of three int32_t values, as an unbounded integer.
TrueSumSq(x, y, z) ==
    Add(Add(Mul(x.mag, x.mag), Mul(y.mag, y.mag)), Mul(z.mag, z.mag))

----------------------------------------------------------------------------
(* C1: fast_rsqrt is non-increasing over 1..0xFFFFFFFF: for x1 < x2,       *)
(* fast_rsqrt(x1) >= fast_rsqrt(x2).  (Stated for the returned call's      *)
(* argument against every larger input.)                                   *)
C1_NonIncreasing ==
    RsqrtDone =>
        \A x2 \in U32Inputs : Less(args[1], x2) => Leq(fast_rsqrt(x2), ret)

(* C2: for every x in 1..0xFFFFFFFF, r = fast_rsqrt(x) has r*r*x within    *)
(* 0.1% of 2^32.                                                           *)
C2_WithinTenthPercent ==
    RsqrtDone => WithinTenthPercent(ret, args[1])

(* C2 as amended: for every x in 1..0xFFFFFFFF, r = fast_rsqrt(x) is       *)
(* floor(2^16/sqrt(x)) or one less, r*r*x <= 2^32 < (r+2)*(r+2)*x; and     *)
(* r*r*x is within 0.1% of 2^32 for every x in 1..1132.                    *)
C2_WithinOneUnit ==
    RsqrtDone =>
        /\ Leq(RRX(ret, args[1]), Two32)
        /\ Less(Two32, RRX(Add(ret, Num(2)), args[1]))
        /\ Leq(args[1], Num(1132)) => WithinTenthPercent(ret, args[1])

C2_Witness ==
    /\ RsqrtDone
    /\ args[1] = Num(1000000)
    /\ ret = Num(65)
    /\ ~WithinTenthPercent(ret, args[1])

(* C3: for every x in 1..0xFFFFFFFF, fast_rsqrt(x) is exactly              *)
(* floor(2^16/sqrt(x)): r*r*x <= 2^32 < (r+1)*(r+1)*x.                     *)
C3_ExactFloor ==
    RsqrtDone =>
        /\ Leq(RRX(ret, args[1]), Two32)
        /\ Less(Two32, RRX(Add(ret, Num(1)), args[1]))

(* C4: when s = x^2+y^2+z^2 <= 0xFFFFFFFF, dist3(x,y,z) is within 1 of     *)
(* floor(sqrt(s)): (d-1)^2 <= s (or d = 0) and s < (d+2)^2.                *)
C4_WithinOneOfSqrt ==
    LET s == TrueSumSq(args[1], args[2], args[3])
    IN  (Returned("dist3") /\ Leq(s, MaxU32)) =>
            /\ ret = Zero \/ Leq(Mul(Sub(ret, Num(1)), Sub(ret, Num(1))), s)
            /\ Less(s, Mul(Add(ret, Num(2)), Add(ret, Num(2))))

(* C5: when x^2+y^2+z^2 exceeds 0xFFFFFFFF, the 64-bit sum in dist3 is the *)
(* exact sum, it is clamped to 0xFFFFFFFF, fast_rsqrt is called on         *)
(* 0xFFFFFFFF, and the result is (fast_rsqrt(0xFFFFFFFF) * 0xFFFFFFFF)     *)
(* >> 16, the same value (65535) for every such input.                     *)
C5_Saturates ==
    LET s == TrueSumSq(args[1], args[2], args[3])
    IN  (Returned("dist3") /\ Less(MaxU32, s)) =>
            /\ locals.sum = s
            /\ locals.sum_sq = MaxU32
            /\ calls[1] = CallRec("fast_rsqrt", <<MaxU32>>, fast_rsqrt(MaxU32))
            /\ ret = ShR(Mul(fast_rsqrt(MaxU32), MaxU32), 16)
            /\ ret = Num(65535)

C5_Witness ==
    /\ Returned("dist3")
    /\ args = <<Int32Min, Neg(3), Pos(2)>>
    /\ locals.sum = Add(P2(62), Num(13))
    /\ ret = Num(65535)

(* C6: fast_rsqrt(0) returns 0xFFFFFFFF before any call of clz32 or        *)
(* q16_newton_step and before any local is set; no call of clz32 made      *)
(* under fast_rsqrt has argument 0; every fast_rsqrt call returns a        *)
(* 32-bit value.                                                           *)
C6_ZeroSaturates ==
    /\ (Returned("fast_rsqrt") /\ args[1] = Zero) =>
            ret = MaxU32 /\ calls = <<>> /\ locals = <<>>
    /\ (pc = "return" /\ fn \in {"fast_rsqrt", "dist3"}) =>
            /\ Less(ret, Two32)
            /\ \A i \in 1..Len(calls) :
                  /\ calls[i].fn = "clz32" => calls[i].args[1] # Zero
                  /\ (calls[i].fn = "fast_rsqrt" /\ calls[i].args[1] = Zero) =>
                        calls[i].ret = MaxU32 /\ Len(calls) = i

C6_Witness ==
    Returned("fast_rsqrt") /\ args[1] = Zero /\ ret = MaxU32 /\ calls = <<>>

(* C7: for every k in 0..15, fast_rsqrt(4^k) = 2^(16-k): the fractional    *)
(* offset is 0, the interpolated seed is 2^(16-k) and both Newton steps    *)
(* return it unchanged.                                                    *)
C7_ExactAtPowersOfFour ==
    \A k \in 0..15 :
        (Returned("fast_rsqrt") /\ args[1] = P2(2 * k)) =>
            /\ ret = P2(16 - k)
            /\ locals.frac = Zero
            /\ locals.y = P2(16 - k)
            /\ \A i \in NewtonCalls : calls[i].ret = P2(16 - k)

C7_Witness ==
    /\ Returned("fast_rsqrt")
    /\ args[1] = Num(16)
    /\ ret = Num(16384)
    /\ Cardinality(NewtonCalls) = 2

(* C8: for every x in 1..0xFFFFFFFF, in every exponent bucket 0..31, the   *)
(* fractional offset frac of fast_rsqrt is in 0..65535.                    *)
C8_FracBelowOne ==
    RsqrtDone => Less(locals.frac, Num(65536))

(* C9: for x > 0 the exponent 31 - clz32(x) is in 0..31 with               *)
(* 2^e <= x < 2^(e+1); clz32(0) = 32; clz32 agrees with the reference      *)
(* leading-zero count on every input.                                      *)
C9_ExponentBucket ==
    /\ Returned("clz32") => ret = Num(RefClz(args[1]))
    /\ (Returned("clz32") /\ args[1] = Zero) => ret = Num(32)
    /\ RsqrtDone =>
          /\ locals.exp \in 0..31
          /\ Leq(P2(locals.exp), args[1])
          /\ Less(args[1], P2(locals.exp + 1))
          /\ calls[1] = CallRec("clz32", <<args[1]>>, Num(31 - locals.exp))

C9_Witness ==
    /\ RsqrtDone
    /\ args[1] = Num(1000000)
    /\ locals.exp = 19
    /\ calls[1].ret = Num(12)

(* C10: in every q16_newton_step(y, x) call made by fast_rsqrt, x*y*y is   *)
(* below 2^64 and at most 3*2^32, y*(3*2^32 - x*y*y) is below 2^64, and    *)
(* the result is floor(y*(3*2^32 - x*y*y) / 2^33), which fits in 32 bits.  *)
C10_NewtonNoWrap ==
    pc = "return" =>
        \A i \in NewtonCalls :
            LET y   == calls[i].args[1]
                x   == calls[i].args[2]
                xyy == Mul(x, Mul(y, y))
            IN  /\ Less(xyy, Two64)
                /\ Leq(xyy, Three32)
                /\ Less(Mul(y, Sub(Three32, xyy)), Two64)
                /\ calls[i].ret = ShR(Mul(y, Sub(Three32, xyy)), 33)
                /\ Less(calls[i].ret, Two32)

C10_Witness ==
    /\ RsqrtDone
    /\ args[1] = Num(3)
    /\ calls[2] = CallRec("q16_newton_step", <<Num(39555), Num(3)>>, Num(37718))
    /\ calls[3] = CallRec("q16_newton_step", <<Num(37718), Num(3)>>, Num(37836))

====
